---- MODULE Spec2Model ----
(***************************************************************************)
(* Model of prerender_stock_details.py: the metric comparison engine, the  *)
(* section scorer, the peer-median calculator, the symbol matcher and the  *)
(* batch driver of main().                                                 *)
(*                                                                         *)
(* Numbers.  The program computes on Python floats.  The model computes on *)
(* exact reals of the form  big * 0.005 + tiny * 5e-14,  written           *)
(* Num(big, tiny), with |tiny| so small that the tiny part never carries   *)
(* into the big part: order is lexicographic, and multiplying by a small   *)
(* integer acts on both parts.  None and NaN are values of their own.      *)
(***************************************************************************)
EXTENDS Integers, Sequences, FiniteSets, TLC

(***************************************************************************)
(* Values: float | None, NaN included                                      *)
(***************************************************************************)
None == [kind |-> "None", big |-> 0, tiny |-> 0]
NaN  == [kind |-> "NaN", big |-> 0, tiny |-> 0]
Num(b, t) == [kind |-> "num", big |-> b, tiny |-> t]

\* x is a number (neither None nor NaN)
IsNum(x) == x.kind = "num"

\* k * x for an integer k
Scale(x, k) == Num(x.big * k, x.tiny * k)

Lt(x, y) == x.big < y.big \/ (x.big = y.big /\ x.tiny < y.tiny)
Le(x, y) == x.big < y.big \/ (x.big = y.big /\ x.tiny <= y.tiny)
Gt(x, y) == Lt(y, x)
Ge(x, y) == Le(y, x)

\* abs(x) as Python computes it
Abs(x) == IF Lt(x, Num(0, 0)) THEN Scale(x, -1) ELSE x

(***************************************************************************)
(* Fixed configuration tables                                              *)
(***************************************************************************)
DATA_FIELDS ==
    << "tang_equity_over_tot_liab", "capital_intensity_reverse",
       "cagr_tangible_book_per_share", "cagr_cash_and_equiv",
       "goodwill_to_assets", "leverage_ratio", "interest_coverage_ratio",
       "roe_tangible_equity", "roic_over_wacc", "rule_of_40",
       "cash_conversion_ratio", "earnings_yield", "price_to_earnings",
       "fcf_yield", "peg", "price_to_tangible_book",
       "relative_PE_vs_history", "avg_5years_eps_growth",
       "avg_5years_revenue_growth", "revenue_growth_acceleration",
       "cagr_shares_diluted", "expected_growth_market_cap_10Y",
       "final_earnings_for_10y_growth_10perc",
       "final_earnings_for_10y_growth_15perc", "avg_5years_roe_growth",
       "implied_perpetual_growth_curr_market_cap", "current_ratio",
       "negative_eps_count_5y", "eps_growth_5y_total", "pe_times_pb" >>

SECTION_FIELDS ==
    [ balance_sheet_strength |->
        << "tang_equity_over_tot_liab", "capital_intensity_reverse",
           "cagr_tangible_book_per_share", "cagr_cash_and_equiv",
           "goodwill_to_assets" >>,
      debt_service |-> << "leverage_ratio", "interest_coverage_ratio" >>,
      profitability |->
        << "roe_tangible_equity", "roic_over_wacc", "rule_of_40",
           "cash_conversion_ratio", "avg_5years_roe_growth" >>,
      valuation |->
        << "earnings_yield", "price_to_earnings", "fcf_yield", "peg",
           "price_to_tangible_book", "relative_PE_vs_history" >>,
      growth |->
        << "avg_5years_eps_growth", "avg_5years_revenue_growth",
           "revenue_growth_acceleration", "cagr_shares_diluted",
           "expected_growth_market_cap_10Y",
           "final_earnings_for_10y_growth_10perc",
           "final_earnings_for_10y_growth_15perc",
           "implied_perpetual_growth_curr_market_cap" >>,
      graham_value_investor_indicator |->
        << "current_ratio", "negative_eps_count_5y", "eps_growth_5y_total",
           "pe_times_pb" >> ]

HIGHER_IS_BETTER ==
    { "tang_equity_over_tot_liab", "capital_intensity_reverse",
      "cagr_tangible_book_per_share", "cagr_cash_and_equiv",
      "roe_tangible_equity", "roic_over_wacc", "rule_of_40",
      "cash_conversion_ratio", "earnings_yield", "fcf_yield",
      "avg_5years_eps_growth", "avg_5years_revenue_growth",
      "revenue_growth_acceleration", "expected_growth_market_cap_10Y",
      "avg_5years_roe_growth", "interest_coverage_ratio", "current_ratio" }

LOWER_IS_BETTER ==
    { "price_to_earnings", "peg", "price_to_tangible_book",
      "final_earnings_for_10y_growth_10perc",
      "final_earnings_for_10y_growth_15perc",
      "implied_perpetual_growth_curr_market_cap", "leverage_ratio",
      "goodwill_to_assets", "relative_PE_vs_history", "cagr_shares_diluted",
      "negative_eps_count_5y" }

\* MEDIAN_MARGIN_OF_SAFETY = 0.15, in hundredths
MEDIAN_MARGIN_OF_SAFETY == 15

\* eps = 1e-12, in units of 5e-14
eps == 20

(***************************************************************************)
(* Indicator(icon, css_class); the glyphs are named: UP is the up-pointing *)
(* triangle, DOWN the down-pointing triangle, BAR the horizontal bar.      *)
(***************************************************************************)
Indicator(icon, css_class) == [icon |-> icon, css_class |-> css_class]

\* a rule's (or threshold_indicator's) None
NoIndicator == Indicator("", "None")

(***************************************************************************)
(* threshold_indicator and its four rules                                  *)
(***************************************************************************)
\* a rule that excludes the threshold itself
rule_current_ratio_strict(v) ==
    IF ~IsNum(v) THEN NoIndicator
    ELSE IF Gt(v, Num(300, 0)) THEN Indicator("UP", "better")
         ELSE Indicator("DOWN", "worse")

\* v >= 1.5
rule_current_ratio(v) ==
    IF ~IsNum(v) THEN NoIndicator
    ELSE IF Ge(v, Num(300, 0)) THEN Indicator("UP", "better")
         ELSE Indicator("DOWN", "worse")

\* v == 0
rule_negative_eps(v) ==
    IF ~IsNum(v) THEN NoIndicator
    ELSE IF v = Num(0, 0) THEN Indicator("UP", "better")
         ELSE Indicator("DOWN", "worse")

\* v > 1
rule_eps_growth(v) ==
    IF ~IsNum(v) THEN NoIndicator
    ELSE IF Gt(v, Num(200, 0)) THEN Indicator("UP", "better")
         ELSE Indicator("DOWN", "worse")

\* v < 30
rule_pe_times_pb(v) ==
    IF ~IsNum(v) THEN NoIndicator
    ELSE IF Lt(v, Num(6000, 0)) THEN Indicator("UP", "better")
         ELSE Indicator("DOWN", "worse")

\* the keys of the dict `rules`
rules ==
    { "current_ratio", "negative_eps_count_5y", "eps_growth_5y_total",
      "pe_times_pb" }

\* rules.get(field_id): the rule's key, or "None"
threshold_indicator(field_id) ==
    IF field_id \in rules THEN field_id ELSE "None"

\* rule(v) for a rule returned by threshold_indicator
ApplyRule(rule, v) ==
    CASE rule = "current_ratio" -> rule_current_ratio(v)
      [] rule = "negative_eps_count_5y" -> rule_negative_eps(v)
      [] rule = "eps_growth_5y_total" -> rule_eps_growth(v)
      [] rule = "pe_times_pb" -> rule_pe_times_pb(v)

(***************************************************************************)
(* get_comparison_indicator                                                *)
(***************************************************************************)
\* value >= median_value * (1 + MEDIAN_MARGIN_OF_SAFETY)
GeUpper(value, median_value) ==
    Ge(Scale(value, 100), Scale(median_value, 100 + MEDIAN_MARGIN_OF_SAFETY))

\* value <= median_value * (1 - MEDIAN_MARGIN_OF_SAFETY)
LeLower(value, median_value) ==
    Le(Scale(value, 100), Scale(median_value, 100 - MEDIAN_MARGIN_OF_SAFETY))

\* the band comparison against upper and lower
BandComparison(value, median_value, field_id) ==
    IF field_id \in HIGHER_IS_BETTER
    THEN IF GeUpper(value, median_value) THEN Indicator("UP", "better")
         ELSE IF LeLower(value, median_value) THEN Indicator("DOWN", "worse")
         ELSE Indicator("BAR", "equal")
    ELSE IF field_id \in LOWER_IS_BETTER
    THEN IF LeLower(value, median_value) THEN Indicator("UP", "better")
         ELSE IF GeUpper(value, median_value) THEN Indicator("DOWN", "worse")
         ELSE Indicator("BAR", "equal")
    ELSE Indicator("BAR", "equal")

\* a comparison that keeps the band test near zero
NearZeroComparison_band(value, median_value, field_id) ==
    BandComparison(value, median_value, field_id)

\* the branch taken when abs(median_value) < eps
NearZeroComparison(value, median_value, field_id) ==
    IF field_id \in HIGHER_IS_BETTER
    THEN IF Gt(value, median_value) THEN Indicator("UP", "better")
         ELSE IF Lt(value, median_value) THEN Indicator("DOWN", "worse")
         ELSE Indicator("BAR", "equal")
    ELSE IF field_id \in LOWER_IS_BETTER
    THEN IF Lt(value, median_value) THEN Indicator("UP", "better")
         ELSE IF Gt(value, median_value) THEN Indicator("DOWN", "worse")
         ELSE Indicator("BAR", "equal")
    ELSE Indicator("BAR", "equal")

\* a comparison that forgets the test for a missing value or median
get_comparison_indicator_unguarded(value, median_value, field_id) ==
    LET rule == threshold_indicator(field_id) IN
    IF rule # "None"
    THEN LET res == ApplyRule(rule, value) IN
         IF res # NoIndicator THEN res ELSE Indicator("BAR", "equal")
    ELSE IF Lt(Abs(median_value), Num(0, eps))
    THEN NearZeroComparison(value, median_value, field_id)
    ELSE BandComparison(value, median_value, field_id)

get_comparison_indicator(value, median_value, field_id) ==
    LET rule == threshold_indicator(field_id) IN
    IF rule # "None"
    THEN LET res == ApplyRule(rule, value) IN
         IF res # NoIndicator THEN res ELSE Indicator("BAR", "equal")
    ELSE IF value = None \/ median_value = None
    THEN Indicator("BAR", "equal")
    ELSE IF value = NaN \/ median_value = NaN
    THEN Indicator("BAR", "equal")
    ELSE IF Lt(Abs(median_value), Num(0, eps))
    THEN NearZeroComparison(value, median_value, field_id)
    ELSE BandComparison(value, median_value, field_id)

(***************************************************************************)
(* _to_float on worksheet cells.  A cell is None, a float, or a string; the *)
(* strings are the ones listed in StrInputs, and strip, lower and float    *)
(* are tabulated on them as Python computes them.                          *)
(***************************************************************************)
Cell(type, val, text) == [type |-> type, val |-> val, text |-> text]

StrInputs ==
    { "", "  ", "na", "N/A", "NaN", "null", "abc", "-nan", "10", " 11.5 ",
      "8.5" }

\* s.strip()
Strip(s) ==
    CASE s = "  " -> ""
      [] s = " 11.5 " -> "11.5"
      [] OTHER -> s

\* s.lower()
Lower(s) ==
    CASE s = "N/A" -> "n/a"
      [] s = "NaN" -> "nan"
      [] OTHER -> s

\* float(s); None stands for ValueError, which _to_float turns into None
PyFloat(s) ==
    CASE s = "10" -> Num(2000, 0)
      [] s = "11.5" -> Num(2300, 0)
      [] s = "8.5" -> Num(1700, 0)
      [] s \in { "nan", "NaN", "-nan" } -> NaN
      [] OTHER -> None

to_float(cell) ==
    IF cell.type = "NoneType" THEN None
    ELSE IF cell.type = "float"
    THEN IF cell.val = NaN THEN None ELSE cell.val
    ELSE IF cell.type = "str"
    THEN LET s == Strip(cell.text) IN
         IF s = "" \/ Lower(s) \in { "na", "n/a", "nan", "null" }
         THEN None
         ELSE PyFloat(s)
    ELSE None

CellInputs ==
    { Cell("NoneType", None, ""), Cell("float", NaN, ""),
      Cell("float", Num(2000, 0), ""), Cell("bool_or_date", None, "") }
    \cup { Cell("str", None, t) : t \in StrInputs }

(***************************************************************************)
(* calculate_median and compute_medians                                    *)
(***************************************************************************)
Add(x, y) == Num(x.big + y.big, x.tiny + y.tiny)

\* x / 2.0
Half(x) == Num(x.big \div 2, x.tiny \div 2)

\* r.get(key)
Get(r, key) == IF key \in DOMAIN r THEN r[key] ELSE None

\* the list comprehension of calculate_median: numbers only
RECURSIVE Clean(_)
Clean(values) ==
    IF values = << >> THEN << >>
    ELSE IF IsNum(Head(values))
         THEN << Head(values) >> \o Clean(Tail(values))
         ELSE Clean(Tail(values))

RECURSIVE InsertSorted(_, _)
InsertSorted(x, sorted) ==
    IF sorted = << >> THEN << x >>
    ELSE IF Lt(x, Head(sorted)) THEN << x >> \o sorted
    ELSE << Head(sorted) >> \o InsertSorted(x, Tail(sorted))

\* clean.sort(): ascending and stable
RECURSIVE Sort(_)
Sort(list) ==
    IF list = << >> THEN << >>
    ELSE InsertSorted(list[Len(list)], Sort(SubSeq(list, 1, Len(list) - 1)))

\* a median that takes the lower middle element of an even count
calculate_median_lower(values) ==
    LET clean == Sort(Clean(values))
        mid == Len(clean) \div 2
    IN  IF clean = << >> THEN None
        ELSE IF Len(clean) % 2 = 0 THEN clean[mid]
        ELSE clean[mid + 1]

\* sequences are 1-based: clean[mid - 1], clean[mid] are clean[mid], clean[mid + 1]
calculate_median(values) ==
    LET clean == Sort(Clean(values))
        mid == Len(clean) \div 2
    IN  IF clean = << >> THEN None
        ELSE IF Len(clean) % 2 = 0
             THEN Half(Add(clean[mid], clean[mid + 1]))
             ELSE clean[mid + 1]

compute_medians(rs) ==
    [ f \in { DATA_FIELDS[i] : i \in DOMAIN DATA_FIELDS } |->
        calculate_median([ i \in 1 .. Len(rs) |-> Get(rs[i], f) ]) ]

(***************************************************************************)
(* calculate_section_score and get_score_chip_class                        *)
(***************************************************************************)
\* an iteration that asks for a median for the threshold fields too
ScoreField_medianrequired(acc, f, data, meds) ==
    LET v == Get(data, f)
        m == Get(meds, f)
        better ==
            IF get_comparison_indicator(v, m, f).css_class = "better"
            THEN 1 ELSE 0
    IN  IF v = None \/ m = None THEN acc
        ELSE << acc[1] + better, acc[2] + 1 >>

\* one iteration of the loop over section_field_ids, on acc = <<above, total>>
ScoreField(acc, f, data, meds) ==
    LET v == Get(data, f)
        m == Get(meds, f)
        better ==
            IF get_comparison_indicator(v, m, f).css_class = "better"
            THEN 1 ELSE 0
    IN  IF threshold_indicator(f) # "None"
        THEN IF v = None THEN acc
             ELSE << acc[1] + better, acc[2] + 1 >>
        ELSE IF v = None \/ m = None THEN acc
        ELSE << acc[1] + better, acc[2] + 1 >>

RECURSIVE ScoreLoop(_, _, _, _)
ScoreLoop(acc, ids, data, meds) ==
    IF ids = << >> THEN acc
    ELSE ScoreLoop(ScoreField(acc, Head(ids), data, meds), Tail(ids), data,
                   meds)

\* returns <<above, total>>
calculate_section_score(section_field_ids, data, meds) ==
    ScoreLoop(<< 0, 0 >>, section_field_ids, data, meds)

\* a tier whose upper boundaries are exclusive
get_score_chip_class_exclusive(above, total) ==
    IF total = 0 THEN "mixed"
    ELSE IF 10 * above > 7 * total THEN "good"
    ELSE IF 10 * above > 4 * total THEN "mixed"
    ELSE "poor"

\* ratio = above / total; ratio >= 0.7 is 10 * above >= 7 * total for total > 0
get_score_chip_class(above, total) ==
    IF total = 0 THEN "mixed"
    ELSE IF 10 * above >= 7 * total THEN "good"
    ELSE IF 10 * above >= 4 * total THEN "mixed"
    ELSE "poor"

(***************************************************************************)
(* Strings are sequences of one-character strings.                         *)
(***************************************************************************)
Whitespace == { " ", "\t" }

LowerCase ==
    << "a", "b", "c", "d", "e", "f", "g", "h", "i", "j", "k", "l", "m", "n",
       "o", "p", "q", "r", "s", "t", "u", "v", "w", "x", "y", "z" >>

UpperCase ==
    << "A", "B", "C", "D", "E", "F", "G", "H", "I", "J", "K", "L", "M", "N",
       "O", "P", "Q", "R", "S", "T", "U", "V", "W", "X", "Y", "Z" >>

UpperChar(c) ==
    IF \E i \in DOMAIN LowerCase : LowerCase[i] = c
    THEN UpperCase[CHOOSE i \in DOMAIN LowerCase : LowerCase[i] = c]
    ELSE c

\* s.upper()
Upper(s) == [ i \in DOMAIN s |-> UpperChar(s[i]) ]

RECURSIVE LStrip(_)
LStrip(s) ==
    IF s # << >> /\ Head(s) \in Whitespace THEN LStrip(Tail(s)) ELSE s

RECURSIVE RStrip(_)
RStrip(s) ==
    IF s # << >> /\ s[Len(s)] \in Whitespace
    THEN RStrip(SubSeq(s, 1, Len(s) - 1))
    ELSE s

\* s.strip()
StripStr(s) == RStrip(LStrip(s))

\* sep in s
Contains(s, sep) == \E i \in DOMAIN s : s[i] = sep

\* s.split(sep, 1)[0]
RECURSIVE SplitFirst(_, _)
SplitFirst(s, sep) ==
    IF s = << >> \/ Head(s) = sep THEN << >>
    ELSE << Head(s) >> \o SplitFirst(Tail(s), sep)

\* s.replace(old, new) for one-character old and new
Replace(s, old, new) == [ i \in DOMAIN s |-> IF s[i] = old THEN new ELSE s[i] ]

\* "-".join(s.split()): the words of s, joined by single hyphens
RECURSIVE JoinWords(_, _)
JoinWords(s, started) ==
    IF s = << >> THEN << >>
    ELSE IF Head(s) \in Whitespace
    THEN LET rest == LStrip(s) IN
         IF rest = << >> THEN << >>
         ELSE (IF started THEN << "-" >> ELSE << >>) \o JoinWords(rest, started)
    ELSE << Head(s) >> \o JoinWords(Tail(s), TRUE)

\* "".join(ch for ch in s if ch in allowed)
RECURSIVE Keep(_, _)
Keep(s, allowed) ==
    IF s = << >> THEN << >>
    ELSE (IF Head(s) \in allowed THEN << Head(s) >> ELSE << >>)
         \o Keep(Tail(s), allowed)

(***************************************************************************)
(* sanitize_symbol_for_filename                                            *)
(***************************************************************************)
Allowed ==
    { UpperCase[i] : i \in DOMAIN UpperCase }
    \cup { "0", "1", "2", "3", "4", "5", "6", "7", "8", "9", "-", ".", "_" }

\* a sanitizer without the fallback name
sanitize_symbol_for_filename_empty(symbol) ==
    LET s1 == Upper(StripStr(symbol))
        s2 == Replace(Replace(Replace(s1, ":", "-"), "/", "-"), "\\", "-")
        s3 == JoinWords(s2, FALSE)
    IN  Keep(s3, Allowed)

sanitize_symbol_for_filename(symbol) ==
    LET s1 == Upper(StripStr(symbol))
        s2 == Replace(Replace(Replace(s1, ":", "-"), "/", "-"), "\\", "-")
        s3 == JoinWords(s2, FALSE)
        s4 == Keep(s3, Allowed)
    IN  IF s4 # << >> THEN s4 ELSE << "S", "Y", "M", "B", "O", "L" >>

(***************************************************************************)
(* find_stock_row                                                          *)
(***************************************************************************)
\* None where a str is expected: no string holds this element
NoneStr == << "None" >>

\* r.get("symbol")
GetSymbol(r) == IF "symbol" \in DOMAIN r THEN r.symbol ELSE NoneStr

\* sym.split(":", 1)[0].strip() if ":" in sym else sym
BaseOf(sym) ==
    IF Contains(sym, ":") THEN StripStr(SplitFirst(sym, ":")) ELSE sym

\* the loop over rows from position i on; 0 stands for None
RECURSIVE FindFrom(_, _, _, _)
FindFrom(rows, i, sym, base_sym) ==
    IF i > Len(rows) THEN 0
    ELSE LET rs == GetSymbol(rows[i])
             rs_u == Upper(StripStr(rs))
         IN  IF rs = NoneStr THEN FindFrom(rows, i + 1, sym, base_sym)
             ELSE IF rs_u = sym THEN i
             ELSE IF BaseOf(rs_u) = base_sym THEN i
             ELSE FindFrom(rows, i + 1, sym, base_sym)

\* a search that knows the exact match only
find_stock_row_exact(rows, symbol) ==
    LET sym == Upper(StripStr(symbol)) IN
    IF \E i \in DOMAIN rows :
          GetSymbol(rows[i]) # NoneStr /\ Upper(StripStr(GetSymbol(rows[i]))) = sym
    THEN CHOOSE i \in DOMAIN rows :
          GetSymbol(rows[i]) # NoneStr /\ Upper(StripStr(GetSymbol(rows[i]))) = sym
    ELSE 0

\* the position in rows of the row returned, 0 for None
find_stock_row(rows, symbol) ==
    LET sym == Upper(StripStr(symbol)) IN
    FindFrom(rows, 1, sym, BaseOf(sym))

(***************************************************************************)
(* format_metric_value.  A formatted number is its sign, its digits as an  *)
(* integer count of the last printed decimal, and its suffix.  Numbers of  *)
(* the model with an even big part are multiples of 0.01, so that two      *)
(* decimals print them exactly; the tiny part never reaches a printed      *)
(* digit, but it gives the sign of "-0.00".                                *)
(***************************************************************************)
Text(sign, digits, decimals, suffix) ==
    [ sign |-> sign, digits |-> digits, decimals |-> decimals,
      suffix |-> suffix ]

SignOf(x) == IF Lt(x, Num(0, 0)) THEN "-" ELSE ""

AbsInt(n) == IF n < 0 THEN -n ELSE n

\* n / d rounded to the nearest integer, ties to even, for n >= 0 and d > 0;
\* bias is the sign of what n leaves out (-1, 0, 1)
RoundHalfEven(n, d, bias) ==
    LET q == n \div d
        r == n % d
    IN  IF 2 * r < d THEN q
        ELSE IF 2 * r > d THEN q + 1
        ELSE IF bias > 0 THEN q + 1
        ELSE IF bias < 0 THEN q
        ELSE IF q % 2 = 0 THEN q ELSE q + 1

TinySign(x) ==
    LET t == IF x.big < 0 THEN -x.tiny ELSE x.tiny IN
    IF t > 0 THEN 1 ELSE IF t < 0 THEN -1 ELSE 0

Ratio2Fields ==
    { "tang_equity_over_tot_liab", "capital_intensity_reverse",
      "roic_over_wacc", "price_to_earnings", "peg", "price_to_tangible_book",
      "leverage_ratio", "interest_coverage_ratio", "relative_PE_vs_history",
      "current_ratio", "pe_times_pb" }

PercentFields ==
    { "cagr_tangible_book_per_share", "cagr_cash_and_equiv",
      "roe_tangible_equity", "cash_conversion_ratio", "earnings_yield",
      "fcf_yield", "avg_5years_eps_growth", "avg_5years_revenue_growth",
      "revenue_growth_acceleration", "expected_growth_market_cap_10Y",
      "avg_5years_roe_growth", "implied_perpetual_growth_curr_market_cap",
      "goodwill_to_assets", "cagr_shares_diluted", "eps_growth_5y_total" }

BillionFields ==
    { "final_earnings_for_10y_growth_10perc",
      "final_earnings_for_10y_growth_15perc" }

format_metric_value(v, f) ==
    IF ~IsNum(v) THEN Text("", 0, 0, "N/A")
    ELSE IF f \in Ratio2Fields
    THEN Text(SignOf(v), RoundHalfEven(AbsInt(v.big), 2, TinySign(v)), 2, "")
    ELSE IF f = "negative_eps_count_5y"
    THEN Text(SignOf(v), RoundHalfEven(AbsInt(v.big), 200, TinySign(v)), 0, "")
    ELSE IF f \in PercentFields
    THEN Text(SignOf(v), AbsInt(v.big) * 50, 2, "%")
    ELSE IF f \in BillionFields
    THEN Text(SignOf(v), 0, 2, "B")
    ELSE IF f = "rule_of_40"
    THEN Text(SignOf(v), AbsInt(v.big) * 50, 2, "")
    ELSE Text(SignOf(v), RoundHalfEven(AbsInt(v.big), 2, TinySign(v)), 2, ",")

(***************************************************************************)
(* render_html on the shipped template, which holds every placeholder: the *)
(* document is the symbol put in the title, the header and the body, the   *)
(* asset prefix, and what each section and each metric shows.              *)
(***************************************************************************)
SectionIds == DOMAIN SECTION_FIELDS

LabelOf(chip) ==
    CASE chip = "good" -> "Strong"
      [] chip = "mixed" -> "Mixed"
      [] chip = "poor" -> "Weak"
      [] OTHER -> "Neutral"

RenderSection(field_ids, data, meds) ==
    LET sc == calculate_section_score(field_ids, data, meds)
        chip == get_score_chip_class(sc[1], sc[2])
    IN  [ above |-> sc[1], total |-> sc[2], chip_class |-> chip,
          width |-> IF sc[2] > 0 THEN RoundHalfEven(100 * sc[1], sc[2], 0)
                    ELSE 0,
          label |-> LabelOf(chip) ]

RenderMetric(f, data, meds) ==
    [ indicator |-> get_comparison_indicator(Get(data, f), Get(meds, f), f),
      text |-> format_metric_value(Get(data, f), f),
      median_text |-> format_metric_value(Get(meds, f), f) ]

render_html(sym, data, meds, asset_prefix) ==
    [ title |-> sym,
      asset_prefix |-> asset_prefix,
      sections |->
        [ sid \in SectionIds |-> RenderSection(SECTION_FIELDS[sid], data, meds) ],
      metrics |->
        [ f \in { DATA_FIELDS[i] : i \in DOMAIN DATA_FIELDS } |->
            RenderMetric(f, data, meds) ] ]

(***************************************************************************)
(* main: write_one and the batch list                                      *)
(***************************************************************************)
\* the extension of the output files, one element of a path
Html == ".html"

\* out_dir_path / f"{safe_sym}.html"; Path(args.out) when it applies
OutPath(a, sym) ==
    IF a.out # NoneStr /\ ~a.all_from_rankings THEN a.out
    ELSE sanitize_symbol_for_filename(sym) \o << Html >>

\* out_path.write_text(rendered)
WriteText(fs, path, text) ==
    [ q \in DOMAIN fs \cup { path } |-> IF q = path THEN text ELSE fs[q] ]

\* write_one: its result, the path it computed and the files it leaves
write_one(sym0, a, rs, meds, fs) ==
    LET sym == Upper(StripStr(sym0))
        at == find_stock_row(rs, sym)
    IN  IF sym = << >>
        THEN [ ok |-> FALSE, sym |-> sym, path |-> << >>, files |-> fs ]
        ELSE IF at = 0
        THEN [ ok |-> FALSE, sym |-> sym, path |-> OutPath(a, sym),
               files |-> fs ]
        ELSE [ ok |-> TRUE, sym |-> sym, path |-> OutPath(a, sym),
               files |-> WriteText(fs, OutPath(a, sym),
                                   render_html(sym, rs[at], meds, "../")) ]

\* a loop that keeps the last occurrence of a symbol, not the first
RECURSIVE UniqueFrom_keeplast(_, _)
UniqueFrom_keeplast(symbols, seen) ==
    IF symbols = << >> THEN << >>
    ELSE LET key == Upper(StripStr(Head(symbols))) IN
         IF key = << >>
            \/ \E i \in DOMAIN Tail(symbols) :
                  Upper(StripStr(Tail(symbols)[i])) = key
         THEN UniqueFrom_keeplast(Tail(symbols), seen)
         ELSE << key >> \o UniqueFrom_keeplast(Tail(symbols), seen)

\* the loop "Unique, stable order" over symbols
RECURSIVE UniqueFrom(_, _)
UniqueFrom(symbols, seen) ==
    IF symbols = << >> THEN << >>
    ELSE LET key == Upper(StripStr(Head(symbols))) IN
         IF key = << >> \/ key \in seen THEN UniqueFrom(Tail(symbols), seen)
         ELSE << key >> \o UniqueFrom(Tail(symbols), seen \cup { key })

NoLimit == [ given |-> FALSE, n |-> 0 ]
Limit(n) == [ given |-> TRUE, n |-> n ]

\* unique_symbols[: max(0, args.limit)]
ApplyLimit(list, limit) ==
    IF ~limit.given THEN list
    ELSE LET m == IF limit.n > 0 THEN limit.n ELSE 0 IN
         SubSeq(list, 1, IF m < Len(list) THEN m ELSE Len(list))

\* expected_files
ExpectedFiles(list) ==
    { sanitize_symbol_for_filename(list[i]) \o << Html >> : i \in DOMAIN list }

(***************************************************************************)
(* State                                                                   *)
(***************************************************************************)
VARIABLES
    value,          \* get_comparison_indicator: argument value
    median_value,   \* get_comparison_indicator: argument median_value
    field_id,       \* get_comparison_indicator: argument field_id
    indicator,      \* its result, NoIndicator before the call
    above,          \* get_score_chip_class: argument above
    total,          \* get_score_chip_class: argument total
    chip_class,     \* its result, "" before the call
    section_id,     \* render_html: the section being scored
    stock_data,     \* the record of the symbol: field -> value
    score,          \* calculate_section_score's <<above, total>>, <<>> before
    rendered,       \* render_html's document, <<>> before
    rows,           \* the numeric rows of the dataset
    medians,        \* the peer medians: field -> value, <<>> before
    symbol,         \* the symbol looked up (args.symbol in single mode)
    stock_row,      \* find_stock_row's result as a position, -1 before
    safe_sym,       \* sanitize_symbol_for_filename's result, NoneStr before
    args,           \* all_from_rankings, no_clean, limit, out
    raw_symbols,    \* the symbols of the rankings JSON, in order
    unique_symbols, \* main: the deduplicated, limited list
    files,          \* the .html files of the output directory: name -> text
    undeletable,    \* the names on which unlink() raises OSError
    attempts,       \* the calls of write_one made, with path and result
    ok,             \* main: counter ok ("Generated")
    missing,        \* main: counter missing
    pc,             \* position in main
    exit_code       \* "" while running, "0", or "SystemExit"

indVars == << value, median_value, field_id, indicator >>
chipVars == << above, total, chip_class >>
scoreVars == << section_id, stock_data, score, rendered >>
dataVars == << rows, medians >>
findVars == << symbol, stock_row, safe_sym >>
mainVars ==
    << args, raw_symbols, unique_symbols, files, undeletable, attempts, ok,
       missing, pc, exit_code >>

vars == << indVars, chipVars, scoreVars, dataVars, findVars, mainVars >>

\* the parts of the state a specification does not use
IdleIndicator ==
    /\ value = None
    /\ median_value = None
    /\ field_id = ""
    /\ indicator = NoIndicator

IdleChip == above = 0 /\ total = 0 /\ chip_class = ""

IdleScore ==
    /\ section_id = ""
    /\ stock_data = << >>
    /\ score = << >>
    /\ rendered = << >>

IdleData == rows = << >> /\ medians = << >>

IdleFind == symbol = << >> /\ stock_row = -1 /\ safe_sym = NoneStr

IdleMain ==
    /\ args = << >>
    /\ raw_symbols = << >>
    /\ unique_symbols = << >>
    /\ files = << >>
    /\ undeletable = { }
    /\ attempts = << >>
    /\ ok = 0
    /\ missing = 0
    /\ pc = ""
    /\ exit_code = ""

(***************************************************************************)
(* Inputs of the comparison engine                                         *)
(***************************************************************************)
\* multiples of 0.005: -11.5, -11.49, -10, -8.51, -8.5, 0, 1, 1.005, 1.49,
\* 1.5, 8.5, 8.51, 10, 11.49, 11.5, 29.995, 30
BigInputs ==
    { -2300, -2298, -2000, -1702, -1700, 0, 200, 201, 298, 300, 1700, 1702,
      2000, 2298, 2300, 5999, 6000 }

\* multiples of 5e-14 around eps and around 1.15 * eps
TinyInputs == { -23, -21, -20, -11, -10, -9, 9, 10, 11, 20, 21, 23 }

ValueInputs ==
    { None, NaN } \cup { Num(b, 0) : b \in BigInputs }
                  \cup { Num(0, t) : t \in TinyInputs }

MedianInputs ==
    { None, NaN, Num(-2000, 0), Num(0, 0), Num(2000, 0), Num(0, -20),
      Num(0, -10), Num(0, 10), Num(0, 20) }

Range(seq) == { seq[i] : i \in DOMAIN seq }

\* every FieldID, and an identifier outside the tables
FieldInputs == Range(DATA_FIELDS) \cup { "other_field" }

InitIndicator ==
    /\ value \in ValueInputs
    /\ median_value \in MedianInputs
    /\ field_id \in FieldInputs
    /\ indicator = NoIndicator
    /\ IdleChip /\ IdleScore /\ IdleData /\ IdleFind /\ IdleMain

\* one call of get_comparison_indicator
Compare ==
    /\ indicator = NoIndicator
    /\ indicator' = get_comparison_indicator(value, median_value, field_id)
    /\ UNCHANGED << value, median_value, field_id >>
    /\ UNCHANGED << chipVars, scoreVars, dataVars, findVars, mainVars >>

SpecIndicator == InitIndicator /\ [][Compare]_vars

(***************************************************************************)
(* Properties of the comparison engine                                     *)
(***************************************************************************)
Compared == indicator # NoIndicator

\* a band-based comparison of two numbers
BandCase ==
    /\ Compared
    /\ field_id \notin rules
    /\ IsNum(value)
    /\ IsNum(median_value)

NearZero(m) == m.big = 0 /\ -eps < m.tiny /\ m.tiny < eps

\* 100 * v >= 115 * m  and  100 * v <= 85 * m
AtOrAboveUpper(v, m) == Ge(Scale(v, 100), Scale(m, 115))
AtOrBelowLower(v, m) == Le(Scale(v, 100), Scale(m, 85))

\* C1: for a band-based field, a present value v and a present median m with
\* |m| >= 1e-12 of either sign, with upper = 1.15 m and lower = 0.85 m: a
\* higher-is-better field is better when v >= upper, worse when v <= lower
\* and equal otherwise; a lower-is-better field is better when v <= lower,
\* worse when v >= upper and equal otherwise; any other field is equal.
C1_BandRule ==
    (BandCase /\ ~NearZero(median_value)) =>
        LET up == AtOrAboveUpper(value, median_value)
            lo == AtOrBelowLower(value, median_value)
            c == indicator.css_class
        IN  IF field_id \in HIGHER_IS_BETTER
            THEN /\ up => c = "better"
                 /\ lo => c = "worse"
                 /\ (~up /\ ~lo) => c = "equal"
            ELSE IF field_id \in LOWER_IS_BETTER
            THEN /\ lo => c = "better"
                 /\ up => c = "worse"
                 /\ (~up /\ ~lo) => c = "equal"
            ELSE c = "equal"

\* the band rule is right for every positive median
BandRulePositiveMedian == Lt(Num(0, 0), median_value) => C1_BandRule

\* C2: a threshold field with a present value is better or worse by its own
\* rule (current_ratio: >= 1.5; negative_eps_count_5y: = 0;
\* eps_growth_5y_total: > 1; pe_times_pb: < 30), never equal, and the same
\* for every peer median, absent ones included.
C2_ThresholdIgnoresMedian ==
    (Compared /\ field_id \in rules /\ IsNum(value)) =>
        LET good ==
              CASE field_id = "current_ratio" -> ~Lt(value, Num(300, 0))
                [] field_id = "negative_eps_count_5y" ->
                     value.big = 0 /\ value.tiny = 0
                [] field_id = "eps_growth_5y_total" -> Lt(Num(200, 0), value)
                [] field_id = "pe_times_pb" -> Lt(value, Num(6000, 0))
        IN  /\ indicator.css_class = IF good THEN "better" ELSE "worse"
            /\ \A m \in MedianInputs :
                 get_comparison_indicator(value, m, field_id) = indicator

\* a current ratio of exactly 1.5 is better although the peer median is 10
C2_Witness ==
    /\ Compared
    /\ field_id = "current_ratio"
    /\ value = Num(300, 0)
    /\ median_value = Num(2000, 0)
    /\ indicator.css_class = "better"

\* C6: for a band-based field whose median m has |m| < 1e-12 the verdict is
\* the strict comparison with m: higher-is-better is better iff v > m, worse
\* iff v < m, equal iff v = m; lower-is-better the other way round.
C6_NearZeroStrict ==
    (BandCase /\ NearZero(median_value)) =>
        LET c == indicator.css_class
            higher == Lt(median_value, value)
            lower == Lt(value, median_value)
        IN  /\ field_id \in HIGHER_IS_BETTER =>
                 /\ c = "better" <=> higher
                 /\ c = "worse" <=> lower
                 /\ c = "equal" <=> value = median_value
            /\ field_id \in LOWER_IS_BETTER =>
                 /\ c = "better" <=> lower
                 /\ c = "worse" <=> higher
                 /\ c = "equal" <=> value = median_value

\* median 5e-13, value 5.5e-13: better, although inside the 15% band
C6_Witness ==
    /\ BandCase
    /\ field_id \in HIGHER_IS_BETTER
    /\ median_value = Num(0, 10)
    /\ value = Num(0, 11)
    /\ ~AtOrAboveUpper(value, median_value)
    /\ indicator.css_class = "better"

\* C7: every call returns an indicator; it is the equal indicator (the bar)
\* whenever the value is absent, for threshold fields too, and whenever the
\* median is absent for a band-based field; for a threshold field the result
\* is the one obtained with an absent median.
C7_AbsentIsEqual ==
    Compared =>
        /\ indicator \in { Indicator("UP", "better"),
                           Indicator("DOWN", "worse"),
                           Indicator("BAR", "equal") }
        /\ ~IsNum(value) => indicator = Indicator("BAR", "equal")
        /\ (field_id \notin rules /\ ~IsNum(median_value)) =>
             indicator = Indicator("BAR", "equal")
        /\ field_id \in rules =>
             indicator = get_comparison_indicator(value, None, field_id)

\* an absent value of a threshold field, with a median present
C7_Witness ==
    /\ Compared
    /\ value = None
    /\ field_id = "pe_times_pb"
    /\ IsNum(median_value)
    /\ indicator = Indicator("BAR", "equal")

(***************************************************************************)
(* get_score_chip_class on every pair of counts                            *)
(***************************************************************************)
MaxCount == 10

InitChip ==
    /\ above \in 0 .. MaxCount
    /\ total \in 0 .. MaxCount
    /\ chip_class = ""
    /\ IdleIndicator /\ IdleScore /\ IdleData /\ IdleFind /\ IdleMain

\* one call of get_score_chip_class
Chip ==
    /\ chip_class = ""
    /\ chip_class' = get_score_chip_class(above, total)
    /\ UNCHANGED << above, total >>
    /\ UNCHANGED << indVars, scoreVars, dataVars, findVars, mainVars >>

SpecChip == InitChip /\ [][Chip]_vars

\* C4: the tier is mixed when total = 0; otherwise good iff above/total >=
\* 0.7, mixed iff 0.4 <= above/total < 0.7, poor iff above/total < 0.4; of
\* ten, seven is good, four is mixed and three is poor.
C4_Tier ==
    chip_class # "" =>
        /\ total = 0 => chip_class = "mixed"
        /\ total > 0 =>
             /\ chip_class = "good" <=> 10 * above >= 7 * total
             /\ chip_class = "mixed" <=>
                  (4 * total <= 10 * above /\ 10 * above < 7 * total)
             /\ chip_class = "poor" <=> 10 * above < 4 * total
        /\ (total = 10 /\ above = 7) => chip_class = "good"
        /\ (total = 10 /\ above = 4) => chip_class = "mixed"
        /\ (total = 10 /\ above = 3) => chip_class = "poor"

\* seven of ten: the boundary of the good tier
C4_Witness == total = 10 /\ above = 7 /\ chip_class = "good"

(***************************************************************************)
(* calculate_section_score on the six sections                             *)
(***************************************************************************)
AllFields == Range(DATA_FIELDS)

\* what _to_float makes of the cells: None, NaN, 8.5, 10, 11.5
ScoreValueInputs == { to_float(c) : c \in CellInputs }

\* what calculate_median returns: None or a number
ScoreMedianInputs == { None, Num(2000, 0) }

\* fields of the section whose value and median differ from the others'
MaxOverrides == 2

InitScore ==
    /\ section_id \in DOMAIN SECTION_FIELDS
    /\ \E base_value \in { None, Num(2300, 0) },
          base_median \in ScoreMedianInputs,
          S \in SUBSET Range(SECTION_FIELDS[section_id]) :
          /\ Cardinality(S) <= MaxOverrides
          /\ \E v \in [S -> ScoreValueInputs], m \in [S -> ScoreMedianInputs] :
               /\ stock_data =
                    [ f \in AllFields |-> IF f \in S THEN v[f] ELSE base_value ]
               /\ medians =
                    [ f \in AllFields |-> IF f \in S THEN m[f] ELSE base_median ]
    /\ score = << >>
    /\ rendered = << >>
    /\ rows = << >>
    /\ IdleIndicator /\ IdleChip /\ IdleFind /\ IdleMain

\* one call of calculate_section_score, as render_html makes it
Score ==
    /\ score = << >>
    /\ score' = calculate_section_score(SECTION_FIELDS[section_id], stock_data,
                                        medians)
    /\ UNCHANGED << section_id, stock_data, rendered, dataVars >>
    /\ UNCHANGED << indVars, chipVars, findVars, mainVars >>

SpecScore == InitScore /\ [][Score]_vars

\* a field with a resolvable comparison: its value is present and, unless it
\* is a threshold field, so is its median
Resolvable(f) ==
    /\ IsNum(Get(stock_data, f))
    /\ f \in rules \/ IsNum(Get(medians, f))

RatedBetter(f) ==
    get_comparison_indicator(Get(stock_data, f), Get(medians, f), f).css_class
        = "better"

\* C3: the section score is (above, total) with total the number of the
\* section's fields that have a resolvable comparison and above the number
\* of those rated better; a field with an absent value, or a band-based
\* field with an absent median, adds to neither.
C3_SectionScore ==
    score # << >> =>
        LET ids == SECTION_FIELDS[section_id]
            counted == { i \in DOMAIN ids : Resolvable(ids[i]) }
            good == { i \in counted : RatedBetter(ids[i]) }
        IN  score = << Cardinality(good), Cardinality(counted) >>

\* no value of the section is not-a-number
NoNaNValue ==
    \A f \in Range(SECTION_FIELDS[section_id]) : Get(stock_data, f) # NaN

\* the count is right whenever no value of the section is not-a-number
SectionScoreWithoutNaN == NoNaNValue => C3_SectionScore

(***************************************************************************)
(* compute_medians on a dataset                                            *)
(***************************************************************************)
\* rows of build_numeric_views: dicts that hold some of the fields.  The
\* numbers are even multiples of the units, so that the mean of two of them
\* is a number of the model: -1, 1, 2, 3, 1e-12
MedianRowInputs ==
    { << >> }
    \cup { [ peg |-> a ] :
             a \in { None, NaN, Num(-200, 0), Num(200, 0), Num(400, 0) } }
    \cup { [ peg |-> Num(200, 0), roe_tangible_equity |-> b ] :
             b \in { Num(600, 0), Num(0, 20) } }

MaxRows == 3

SeqsUpTo(S, n) == UNION { [ 1 .. k -> S ] : k \in 0 .. n }

InitMedian ==
    /\ rows \in SeqsUpTo(MedianRowInputs, MaxRows)
    /\ medians = << >>
    /\ IdleIndicator /\ IdleChip /\ IdleScore /\ IdleFind /\ IdleMain

\* medians = compute_medians(rows), once per run
ComputeMedians ==
    /\ medians = << >>
    /\ medians' = compute_medians(rows)
    /\ UNCHANGED << rows, indVars, chipVars, scoreVars, findVars, mainVars >>

SpecMedian == InitMedian /\ [][ComputeMedians]_vars

\* the values of field f over the rows, in row order
Column(rs, f) == [ i \in 1 .. Len(rs) |-> Get(rs[i], f) ]

\* the k-th smallest number of a column: fewer than k numbers lie below it
\* and at least k do not lie above it
KthSmallest(col, k) ==
    LET nums == { i \in DOMAIN col : IsNum(col[i]) } IN
    CHOOSE x \in { col[i] : i \in nums } :
        /\ Cardinality({ i \in nums : Lt(col[i], x) }) < k
        /\ Cardinality({ i \in nums : Le(col[i], x) }) >= k

MedianOfColumn(col, r) ==
    LET n == Cardinality({ i \in DOMAIN col : IsNum(col[i]) }) IN
    /\ n = 0 => r = None
    /\ n % 2 = 1 => r = KthSmallest(col, (n + 1) \div 2)
    /\ (n > 0 /\ n % 2 = 0) =>
         /\ IsNum(r)
         /\ Scale(r, 2) =
              Add(KthSmallest(col, n \div 2), KthSmallest(col, n \div 2 + 1))

\* C5: each field's median ignores the absent values and is, of the others
\* in ascending order, the middle one for an odd count, the mean of the two
\* middle ones for an even count, and absent for none; the medians are the
\* same for every order of the records.
C5_Median ==
    medians # << >> =>
        /\ \A f \in AllFields : MedianOfColumn(Column(rows, f), medians[f])
        /\ \A p \in Permutations(1 .. Len(rows)) :
             compute_medians([ i \in 1 .. Len(rows) |-> rows[p[i]] ]) = medians

\* 2, not-a-number, 1 in this order: the median is the mean 1.5
C5_Witness ==
    /\ medians # << >>
    /\ Len(rows) = 3
    /\ Get(rows[1], "peg") = Num(400, 0)
    /\ Get(rows[2], "peg") = NaN
    /\ Get(rows[3], "peg") = Num(200, 0)
    /\ medians["peg"] = Num(300, 0)

(***************************************************************************)
(* find_stock_row on a dataset                                             *)
(***************************************************************************)
\* rows whose symbol is "A:U", "A", "a:u", "A:C", "A :U", "B", and rows
\* without a symbol
FindRowInputs ==
    { [ symbol |-> << "A", ":", "U" >> ], [ symbol |-> << "A" >> ],
      [ symbol |-> << "a", ":", "u" >> ], [ symbol |-> << "A", ":", "C" >> ],
      [ symbol |-> << "A", " ", ":", "U" >> ], [ symbol |-> << "B" >> ],
      [ symbol |-> NoneStr ], [ peg |-> Num(200, 0) ] }

\* "A", "A:U", " a:u ", "a", "A:X", "B:U", "C", "", ":U"
QueryInputs ==
    { << "A" >>, << "A", ":", "U" >>, << " ", "a", ":", "u", " " >>,
      << "a" >>, << "A", ":", "X" >>, << "B", ":", "U" >>, << "C" >>, << >>,
      << ":", "U" >> }

InitFind ==
    /\ rows \in SeqsUpTo(FindRowInputs, MaxRows)
    /\ symbol \in QueryInputs
    /\ stock_row = -1
    /\ safe_sym = NoneStr
    /\ medians = << >>
    /\ IdleIndicator /\ IdleChip /\ IdleScore /\ IdleMain

\* one call of find_stock_row
Find ==
    /\ stock_row = -1
    /\ stock_row' = find_stock_row(rows, symbol)
    /\ UNCHANGED << symbol, safe_sym, dataVars, indVars, chipVars, scoreVars,
                    mainVars >>

SpecFind == InitFind /\ [][Find]_vars

\* trimmed and upper-cased
Normal(s) == Upper(StripStr(s))

\* the part of s before its first ":" (all of s when it has none)
BeforeColon(s) ==
    LET stops == { i \in DOMAIN s : s[i] = ":" }
        n == IF stops = { } THEN Len(s)
             ELSE (CHOOSE i \in stops : \A j \in stops : i <= j) - 1
    IN  SubSeq(s, 1, n)

\* the record at position i carries a symbol that matches query q
MatchesAt(i, q) ==
    /\ GetSymbol(rows[i]) # NoneStr
    /\ \/ Normal(GetSymbol(rows[i])) = Normal(q)
       \/ BeforeColon(Normal(GetSymbol(rows[i]))) = BeforeColon(Normal(q))

\* C8: a record is found whenever the query and some record's symbol are
\* equal after trimming and upper-casing or have equal base tickers,
\* whichever side carries the market suffix ("A:U" is found for "A" and for
\* "A:U", "A" is found for "A:U"); None is returned only when no record
\* matches in either way.
C8_FindsMatch ==
    stock_row # -1 =>
        /\ (\E i \in DOMAIN rows : MatchesAt(i, symbol)) => stock_row # 0
        /\ stock_row # 0 => GetSymbol(rows[stock_row]) # NoneStr
        /\ \A i \in DOMAIN rows :
             /\ (GetSymbol(rows[i]) = << "A", ":", "U" >>
                   /\ symbol \in { << "A" >>, << "A", ":", "U" >> })
                => stock_row \in 1 .. i
             /\ (GetSymbol(rows[i]) = << "A" >>
                   /\ symbol = << "A", ":", "U" >>)
                => stock_row \in 1 .. i

\* the only record that matches is stored with the suffix, the query has none
C8_Witness ==
    /\ stock_row = 2
    /\ Len(rows) = 2
    /\ GetSymbol(rows[1]) = << "B" >>
    /\ GetSymbol(rows[2]) = << "A", ":", "U" >>
    /\ symbol = << "A" >>

(***************************************************************************)
(* main                                                                    *)
(***************************************************************************)
\* datasets of the rows "A:B" (peg 1), "A-B" (peg 2), "A" (current ratio
\* 1.5), "z" (peg 3) and a row without a symbol (peg 3)
RowAB == [ symbol |-> << "A", ":", "B" >>, peg |-> Num(200, 0) ]
RowA_B == [ symbol |-> << "A", "-", "B" >>, peg |-> Num(400, 0) ]
RowA == [ symbol |-> << "A" >>, current_ratio |-> Num(300, 0) ]
RowZ == [ symbol |-> << "z" >>, peg |-> Num(600, 0) ]
RowNoSymbol == [ peg |-> Num(600, 0) ]

MainDatasets ==
    { << >>, << RowAB >>, << RowAB, RowA_B >>, << RowA_B, RowAB >>,
      << RowNoSymbol, RowA_B >>, << RowA, RowA_B >>, << RowZ, RowAB >> }

\* "A:B", "A-B", "a:b ", "Z", " "
RankInputs ==
    { << "A", ":", "B" >>, << "A", "-", "B" >>, << "a", ":", "b", " " >>,
      << "Z" >>, << " " >> }

MaxSymbols == 2

\* a page left by an earlier run
OldPage == render_html(<< "O", "L", "D" >>, << >>, << >>, "../")

\* the output directory before the run: empty, or two pages of an earlier run
NoFiles == [ q \in { } |-> OldPage ]
OldFiles ==
    [ q \in { << "O", "L", "D", Html >>, << "A", "-", "B", Html >> } |->
        OldPage ]

Args(all_from_rankings, no_clean, limit, out) ==
    [ all_from_rankings |-> all_from_rankings, no_clean |-> no_clean,
      limit |-> limit, out |-> out ]

\* the command lines and output directories of the batch runs
BatchRuns ==
    { << Args(TRUE, FALSE, NoLimit, NoneStr), OldFiles >>,
      << Args(TRUE, TRUE, NoLimit, NoneStr), OldFiles >>,
      << Args(TRUE, FALSE, NoLimit, NoneStr), NoFiles >>,
      << Args(TRUE, FALSE, Limit(1), NoneStr), NoFiles >> }

\* and of the single-symbol runs: with and without --out
SingleRuns ==
    { << Args(FALSE, FALSE, NoLimit, NoneStr), OldFiles >>,
      << Args(FALSE, FALSE, NoLimit, << "out", Html >>), NoFiles >> }

\* main after the arguments are parsed and the input files are found
InitMain ==
    /\ rows \in MainDatasets
    /\ medians = << >>
    /\ \/ /\ \E run \in BatchRuns : args = run[1] /\ files = run[2]
          /\ raw_symbols \in SeqsUpTo(RankInputs, MaxSymbols)
          /\ symbol = << >>
       \/ /\ \E run \in SingleRuns : args = run[1] /\ files = run[2]
          /\ raw_symbols = << >>
          /\ symbol \in RankInputs
    /\ undeletable \in SUBSET DOMAIN files
    /\ unique_symbols = << >>
    /\ attempts = << >>
    /\ ok = 0
    /\ missing = 0
    /\ pc = "load"
    /\ exit_code = ""
    /\ stock_row = -1
    /\ safe_sym = NoneStr
    /\ IdleIndicator /\ IdleChip /\ IdleScore

\* what no step of main changes
MainFrame == UNCHANGED << indVars, chipVars, scoreVars, stock_row, safe_sym,
                          rows, args, raw_symbols, symbol, undeletable >>

\* "Load and precompute all data once"
Load ==
    /\ pc = "load"
    /\ medians' = compute_medians(rows)
    /\ pc' = IF args.all_from_rankings THEN "resolve" ELSE "single"
    /\ UNCHANGED << unique_symbols, files, attempts, ok, missing, exit_code >>
    /\ MainFrame

\* the batch list: unique symbols in stable order, then the limit
ResolveSymbols ==
    /\ pc = "resolve"
    /\ unique_symbols' = ApplyLimit(UniqueFrom(raw_symbols, { }), args.limit)
    /\ pc' = IF args.no_clean THEN "loop" ELSE "clean"
    /\ UNCHANGED << medians, files, attempts, ok, missing, exit_code >>
    /\ MainFrame

\* a cleanup that gives up at the first unlink that fails
CleanStale_halting ==
    /\ pc = "clean"
    /\ LET stale == DOMAIN files \ ExpectedFiles(unique_symbols) IN
       files' = IF stale \cap undeletable # { } THEN files
                ELSE [ q \in DOMAIN files \ stale |-> files[q] ]
    /\ pc' = "loop"
    /\ UNCHANGED << medians, unique_symbols, attempts, ok, missing, exit_code >>
    /\ MainFrame

\* the loop over glob("*.html"): a page that is not expected is unlinked, and
\* an unlink that raises OSError is passed over
CleanStale ==
    /\ pc = "clean"
    /\ LET stale == DOMAIN files \ ExpectedFiles(unique_symbols) IN
       files' = [ q \in DOMAIN files \ (stale \ undeletable) |-> files[q] ]
    /\ pc' = "loop"
    /\ UNCHANGED << medians, unique_symbols, attempts, ok, missing, exit_code >>
    /\ MainFrame

\* a batch loop that computes the medians anew, from the record it rendered
WriteNext_recomputing ==
    /\ pc = "loop"
    /\ Len(attempts) < Len(unique_symbols)
    /\ \E w \in { write_one(unique_symbols[Len(attempts) + 1], args, rows,
                            medians, files) } :
           /\ files' = w.files
           /\ attempts' =
                Append(attempts, [ sym |-> w.sym, path |-> w.path, ok |-> w.ok ])
           /\ ok' = IF w.ok THEN ok + 1 ELSE ok
           /\ missing' = IF w.ok THEN missing ELSE missing + 1
           /\ medians' =
                IF w.ok
                THEN compute_medians(<< rows[find_stock_row(rows, w.sym)] >>)
                ELSE medians
    /\ UNCHANGED << unique_symbols, pc, exit_code >>
    /\ MainFrame

\* a batch loop that gives up at the first symbol it does not find
WriteNext_halting ==
    /\ pc = "loop"
    /\ Len(attempts) < Len(unique_symbols)
    /\ \E w \in { write_one(unique_symbols[Len(attempts) + 1], args, rows,
                            medians, files) } :
           /\ files' = w.files
           /\ attempts' =
                Append(attempts, [ sym |-> w.sym, path |-> w.path, ok |-> w.ok ])
           /\ ok' = IF w.ok THEN ok + 1 ELSE ok
           /\ missing' = IF w.ok THEN missing ELSE missing + 1
           /\ pc' = IF w.ok THEN "loop" ELSE "done"
           /\ exit_code' = IF w.ok THEN "" ELSE "SystemExit"
    /\ UNCHANGED << medians, unique_symbols >>
    /\ MainFrame

\* one iteration of "for sym in unique_symbols"
WriteNext ==
    /\ pc = "loop"
    /\ Len(attempts) < Len(unique_symbols)
    /\ \E w \in { write_one(unique_symbols[Len(attempts) + 1], args, rows,
                            medians, files) } :
           /\ files' = w.files
           /\ attempts' =
                Append(attempts, [ sym |-> w.sym, path |-> w.path, ok |-> w.ok ])
           /\ ok' = IF w.ok THEN ok + 1 ELSE ok
           /\ missing' = IF w.ok THEN missing ELSE missing + 1
    /\ UNCHANGED << medians, unique_symbols, pc, exit_code >>
    /\ MainFrame

\* "Done. Generated: ..."; return 0
Finish ==
    /\ pc = "loop"
    /\ Len(attempts) = Len(unique_symbols)
    /\ pc' = "done"
    /\ exit_code' = "0"
    /\ UNCHANGED << medians, unique_symbols, files, attempts, ok, missing >>
    /\ MainFrame

\* single-symbol mode
Single ==
    /\ pc = "single"
    /\ \E sym \in { Upper(StripStr(symbol)) } :
          IF sym = << >>
          THEN /\ exit_code' = "SystemExit"
               /\ UNCHANGED << files, attempts >>
          ELSE \E w \in { write_one(sym, args, rows, medians, files) } :
               /\ files' = w.files
               /\ attempts' =
                    Append(attempts,
                           [ sym |-> w.sym, path |-> w.path, ok |-> w.ok ])
               /\ exit_code' = IF w.ok THEN "0" ELSE "SystemExit"
    /\ pc' = "done"
    /\ UNCHANGED << medians, unique_symbols, ok, missing >>
    /\ MainFrame

NextMain ==
    \/ Load
    \/ ResolveSymbols
    \/ CleanStale
    \/ WriteNext
    \/ Finish
    \/ Single

SpecMain == InitMain /\ [][NextMain]_vars

(***************************************************************************)
(* Properties of a run of main                                             *)
(***************************************************************************)
BatchDone == pc = "done" /\ args.all_from_rankings

\* the attempts that generated a page
Generated == { i \in DOMAIN attempts : attempts[i].ok }

\* C9: in a batch run no two distinct symbols write to the same path: the
\* number of files written equals the Generated count, and at the end each
\* generated symbol's file holds that symbol's page.
C9_DistinctFiles ==
    BatchDone =>
        /\ \A i, j \in Generated :
             attempts[i].sym # attempts[j].sym =>
                 attempts[i].path # attempts[j].path
        /\ Cardinality({ attempts[i].path : i \in Generated }) = ok
        /\ \A i \in Generated :
             /\ attempts[i].path \in DOMAIN files
             /\ files[attempts[i].path].title = attempts[i].sym

\* C10: in batch mode every symbol of the list is attempted once, in order,
\* whatever the earlier results; every attempt adds one to exactly one of
\* ok and missing, so that they sum to the length of the list at the end,
\* and the run returns 0.  In single-symbol mode a symbol that is not found
\* ends the run with SystemExit.
C10_BatchCompletes ==
    /\ (pc \in { "loop", "done" } /\ args.all_from_rankings) =>
         /\ Len(attempts) <= Len(unique_symbols)
         /\ \A i \in DOMAIN attempts : attempts[i].sym = unique_symbols[i]
         /\ ok = Cardinality(Generated)
         /\ missing = Len(attempts) - Cardinality(Generated)
         /\ exit_code # "SystemExit"
    /\ BatchDone =>
         /\ Len(attempts) = Len(unique_symbols)
         /\ ok + missing = Len(unique_symbols)
         /\ exit_code = "0"
    /\ (pc = "done" /\ ~args.all_from_rankings) =>
         /\ find_stock_row(rows, Upper(StripStr(symbol))) = 0
              => exit_code = "SystemExit"
         /\ exit_code = "0" <=> (attempts # << >> /\ attempts[1].ok)

\* a batch whose first symbol is missing and whose second is generated
C10_Witness ==
    /\ BatchDone
    /\ Len(attempts) = 2
    /\ ~attempts[1].ok
    /\ attempts[2].ok
    /\ missing = 1
    /\ ok = 1

(***************************************************************************)
(* The cleanup of stale pages                                              *)
(***************************************************************************)
\* what one step of main does to the pages of the output directory
CleanupStep ==
    LET expected == ExpectedFiles(unique_symbols) IN
    /\ pc = "clean" =>
          /\ DOMAIN files' \subseteq DOMAIN files
          /\ \A q \in DOMAIN files :
               /\ q \in expected => (q \in DOMAIN files' /\ files'[q] = files[q])
               /\ (q \notin expected /\ q \notin undeletable) =>
                    q \notin DOMAIN files'
               /\ (q \notin expected /\ q \in undeletable) =>
                    (q \in DOMAIN files' /\ files'[q] = files[q])
          /\ pc' = "loop"
          /\ unique_symbols' = unique_symbols
    /\ pc # "clean" => DOMAIN files \subseteq DOMAIN files'
    /\ (pc = "resolve" /\ args.no_clean) => (pc' = "loop" /\ files' = files)

\* C11: in a batch run that cleans, the cleanup removes every page whose
\* name is not expected (the sanitized names of the deduplicated symbols)
\* and no page whose name is; a page whose removal fails stays, the other
\* stale pages are still removed and every symbol is still rendered; with
\* --no-clean, and in every other step of a run, no page is removed.
C11_Cleanup ==
    /\ [][CleanupStep]_vars
    /\ [](pc = "clean" => (args.all_from_rankings /\ ~args.no_clean))
    /\ []((pc = "loop" /\ ~args.no_clean) =>
            \A q \in DOMAIN files :
                q \in ExpectedFiles(unique_symbols) \/ q \in undeletable)
    /\ [](BatchDone =>
            /\ Len(attempts) = Len(unique_symbols)
            /\ \A i \in DOMAIN attempts : attempts[i].sym = unique_symbols[i])

\* a finished batch for "Z" alone: the stale page A-B.html could not be
\* removed and is still there, the stale page OLD.html is gone
C11_Witness ==
    /\ BatchDone
    /\ ~args.no_clean
    /\ Len(unique_symbols) = 1
    /\ Len(attempts) = 1
    /\ << "A", "-", "B", Html >> \in undeletable
    /\ << "A", "-", "B", Html >> \notin ExpectedFiles(unique_symbols)
    /\ << "A", "-", "B", Html >> \in DOMAIN files
    /\ << "O", "L", "D", Html >> \notin DOMAIN files

(***************************************************************************)
(* Rendering again                                                         *)
(***************************************************************************)
\* render_html called now for a symbol of the dataset
Rerender(sym) ==
    render_html(sym, rows[find_stock_row(rows, sym)], medians, "../")

\* no later attempt has written to the path of attempt i
LastWriter(i) ==
    \A j \in Generated : j > i => attempts[j].path # attempts[i].path

MaxRaw == 3

\* --limit absent, negative, zero, and up to three
LimitInputs == { NoLimit } \cup { Limit(n) : n \in -1 .. 3 }

\* main after "Load and precompute all data once", in batch mode
InitResolve ==
    /\ rows = << >>
    /\ medians = compute_medians(<< >>)
    /\ \E no_clean \in BOOLEAN, limit \in LimitInputs :
          args = Args(TRUE, no_clean, limit, NoneStr)
    /\ raw_symbols \in SeqsUpTo(RankInputs, MaxRaw)
    /\ symbol = << >>
    /\ files = NoFiles
    /\ undeletable = { }
    /\ unique_symbols = << >>
    /\ attempts = << >>
    /\ ok = 0
    /\ missing = 0
    /\ pc = "resolve"
    /\ exit_code = ""
    /\ stock_row = -1
    /\ safe_sym = NoneStr
    /\ IdleIndicator /\ IdleChip /\ IdleScore

SpecResolve == InitResolve /\ [][ResolveSymbols]_vars

\* the positions of raw_symbols that hold a symbol not seen before, blank
\* ones left out; symbols are compared trimmed and upper-cased
FirstSeen ==
    { i \in DOMAIN raw_symbols :
        /\ Normal(raw_symbols[i]) # << >>
        /\ \A j \in 1 .. i - 1 : Normal(raw_symbols[j]) # Normal(raw_symbols[i]) }

\* the k-th of these positions
NthFirstSeen(k) ==
    CHOOSE i \in FirstSeen : Cardinality({ j \in FirstSeen : j < i }) = k - 1

\* the symbols in first-seen order
Deduplicated ==
    [ k \in 1 .. Cardinality(FirstSeen) |-> Normal(raw_symbols[NthFirstSeen(k)]) ]

\* how many entries --limit keeps of a list of n
Kept(n) ==
    IF ~args.limit.given THEN n
    ELSE IF args.limit.n <= 0 THEN 0
    ELSE IF args.limit.n < n THEN args.limit.n ELSE n

\* C13: the batch list holds each distinct symbol of the ranking list once
\* (symbols compared trimmed and upper-cased, blanks dropped), in the order
\* of the first occurrences, and --limit N keeps the first max(0, N) of them.
C13_UniqueStableOrder ==
    (pc \in { "clean", "loop", "done" } /\ args.all_from_rankings) =>
        /\ unique_symbols = SubSeq(Deduplicated, 1, Kept(Len(Deduplicated)))
        /\ \A i, j \in DOMAIN unique_symbols :
             i # j => unique_symbols[i] # unique_symbols[j]
        /\ ~args.limit.given =>
             { unique_symbols[i] : i \in DOMAIN unique_symbols }
               = { Normal(raw_symbols[i]) : i \in DOMAIN raw_symbols } \ { << >> }

\* "Z", "A:B", "a:b " with --limit 3: the list is "Z", "A:B"
C13_Witness ==
    /\ pc \in { "clean", "loop" }
    /\ raw_symbols =
         << << "Z" >>, << "A", ":", "B" >>, << "a", ":", "b", " " >> >>
    /\ args.limit = Limit(3)
    /\ unique_symbols = << << "Z" >>, << "A", ":", "B" >> >>

(***************************************************************************)
(* sanitize_symbol_for_filename on symbols                                 *)
(***************************************************************************)
\* letters of both cases, a digit, the separators, blanks, the characters
\* that stay, and one that is dropped
CharInputs == { "a", "B", "1", ":", "/", "\\", " ", "\t", "!", ".", "-", "_" }

MaxLen == 3

BRK_B_US == << "B", "R", "K", ".", "B", ":", "U", "S" >>

SymbolInputs == SeqsUpTo(CharInputs, MaxLen) \cup { BRK_B_US }

InitSanitize ==
    /\ symbol \in SymbolInputs
    /\ safe_sym = NoneStr
    /\ stock_row = -1
    /\ IdleIndicator /\ IdleChip /\ IdleScore /\ IdleData /\ IdleMain

\* safe_sym = sanitize_symbol_for_filename(sym)
Sanitize ==
    /\ safe_sym = NoneStr
    /\ safe_sym' = sanitize_symbol_for_filename(symbol)
    /\ UNCHANGED << symbol, stock_row, dataVars, indVars, chipVars, scoreVars,
                    mainVars >>

SpecSanitize == InitSanitize /\ [][Sanitize]_vars

\* the characters a file name may hold
FileNameChars ==
    { "A", "B", "C", "D", "E", "F", "G", "H", "I", "J", "K", "L", "M", "N", "O",
      "P", "Q", "R", "S", "T", "U", "V", "W", "X", "Y", "Z", "0", "1", "2", "3",
      "4", "5", "6", "7", "8", "9", "-", ".", "_" }

\* what becomes of the character at position i of the trimmed, upper-cased
\* symbol t; "" when nothing is left of it
Becomes(t, i) ==
    IF t[i] \in { ":", "/", "\\" } THEN "-"
    ELSE IF t[i] \in Whitespace
    THEN IF i > 1 /\ t[i - 1] \in Whitespace THEN "" ELSE "-"
    ELSE IF t[i] \in FileNameChars THEN t[i]
    ELSE ""

\* the characters that are left, in their order
Remaining(t) ==
    LET left == { i \in DOMAIN t : Becomes(t, i) # "" }
        nth(k) == CHOOSE i \in left : Cardinality({ j \in left : j < i }) = k - 1
    IN  [ k \in 1 .. Cardinality(left) |-> Becomes(t, nth(k)) ]

\* C14: the sanitized name is never empty and holds only A-Z, 0-9, "-",
\* "." and "_"; it is the trimmed, upper-cased symbol with each colon, slash,
\* backslash and run of blanks turned into "-" and every other character
\* that is not allowed removed, or "SYMBOL" when nothing is left ("BRK.B:US"
\* gives "BRK.B-US"); sanitizing the sanitized name returns it unchanged.
C14_Sanitize ==
    safe_sym # NoneStr =>
        /\ safe_sym # << >>
        /\ \A i \in DOMAIN safe_sym : safe_sym[i] \in FileNameChars
        /\ safe_sym =
             IF Remaining(Normal(symbol)) # << >> THEN Remaining(Normal(symbol))
             ELSE << "S", "Y", "M", "B", "O", "L" >>
        /\ symbol = BRK_B_US =>
             safe_sym = << "B", "R", "K", ".", "B", "-", "U", "S" >>
        /\ sanitize_symbol_for_filename(safe_sym) = safe_sym

\* "BRK.B:US" has become "BRK.B-US"
C14_Witness ==
    /\ symbol = BRK_B_US
    /\ safe_sym = << "B", "R", "K", ".", "B", "-", "U", "S" >>

\* a symbol of which nothing is left has become "SYMBOL"
C14_FallbackReached ==
    /\ symbol = << " ", "!", "\t" >>
    /\ safe_sym = << "S", "Y", "M", "B", "O", "L" >>

(***************************************************************************)
(* Exact and base-ticker matches of find_stock_row                         *)
(***************************************************************************)
\* the record at position i carries exactly the symbol q, both trimmed and
\* upper-cased
ExactAt(i, q) ==
    /\ GetSymbol(rows[i]) # NoneStr
    /\ Normal(GetSymbol(rows[i])) = Normal(q)

\* C15: when some record carries exactly the queried symbol (trimmed and
\* upper-cased), the record returned carries exactly that symbol, also when
\* records that share only its base ticker come earlier in the dataset.
C15_ExactFirst ==
    (stock_row # -1 /\ \E i \in DOMAIN rows : ExactAt(i, symbol)) =>
        (stock_row # 0 /\ ExactAt(stock_row, symbol))

\* the exact match is returned whenever no earlier record shares the base
\* ticker of the query
ExactFirstWithoutEarlierBase ==
    (/\ stock_row # -1
     /\ \E i \in DOMAIN rows :
          /\ ExactAt(i, symbol)
          /\ \A j \in 1 .. i - 1 :
               \/ GetSymbol(rows[j]) = NoneStr
               \/ BaseOf(Normal(GetSymbol(rows[j]))) # BaseOf(Normal(symbol)))
    => (stock_row # 0 /\ ExactAt(stock_row, symbol))

(***************************************************************************)
(* render_html on a record and the peer medians                            *)
(***************************************************************************)
\* the values of a record: None, not-a-number, -10, 8.5, 10, 11.5
RenderValueInputs == ScoreValueInputs \cup { Num(-2000, 0) }

\* the medians of a dataset: None, -10, 0, 10
RenderMedianInputs == { None, Num(-2000, 0), Num(0, 0), Num(2000, 0) }

\* the record and the medians repeat after this many fields of DATA_FIELDS
MaxPeriod == 2

\* the position of field f in DATA_FIELDS
IndexOf(f) == CHOOSE i \in DOMAIN DATA_FIELDS : DATA_FIELDS[i] = f

\* write_one before it calls render_html: the record found and the medians
InitRender ==
    /\ \E v \in [ 0 .. MaxPeriod - 1 -> RenderValueInputs ],
          m \in [ 0 .. MaxPeriod - 1 -> RenderMedianInputs ] :
          /\ stock_data = [ f \in AllFields |-> v[IndexOf(f) % MaxPeriod] ]
          /\ medians = [ f \in AllFields |-> m[IndexOf(f) % MaxPeriod] ]
    /\ section_id = ""
    /\ score = << >>
    /\ rendered = << >>
    /\ rows = << >>
    /\ IdleIndicator /\ IdleChip /\ IdleFind /\ IdleMain

\* rendered = render_html(template_html, sym, stock_row, medians, "../")
Render ==
    /\ rendered = << >>
    /\ rendered' = render_html(<< "A" >>, stock_data, medians, "../")
    /\ UNCHANGED << section_id, stock_data, score, dataVars >>
    /\ UNCHANGED << indVars, chipVars, findVars, mainVars >>

SpecRender == InitRender /\ [][Render]_vars

\* the class of the indicator the page shows for field f
ShownClass(f) == rendered.metrics[f].indicator.css_class

\* the loop of calculate_section_score adds field f to total
Counted(f) == calculate_section_score(<< f >>, stock_data, medians)[2] = 1

\* C16: on a rendered page every section's score agrees with the indicators
\* of its metrics: 0 <= above <= total <= the number of fields of the
\* section, above is the number of its fields shown as better, every field
\* shown as better or worse is counted in total, and a field that is not
\* counted is shown as equal.
C16_ScoreMatchesIndicators ==
    rendered # << >> =>
        \A sid \in SectionIds :
            LET ids == SECTION_FIELDS[sid]
                sec == rendered.sections[sid]
                shown(c) == { i \in DOMAIN ids : ShownClass(ids[i]) = c }
            IN  /\ Range(ids) \subseteq DOMAIN rendered.metrics
                /\ 0 <= sec.above
                /\ sec.above <= sec.total
                /\ sec.total <= Len(ids)
                /\ sec.above = Cardinality(shown("better"))
                /\ sec.total = Cardinality({ i \in DOMAIN ids : Counted(ids[i]) })
                /\ Cardinality(shown("better")) + Cardinality(shown("worse"))
                     <= sec.total
                /\ \A i \in DOMAIN ids :
                     ShownClass(ids[i]) \in { "better", "worse" } => Counted(ids[i])
                /\ \A i \in DOMAIN ids :
                     ~Counted(ids[i]) => ShownClass(ids[i]) = "equal"

\* the fields at odd positions of DATA_FIELDS are 11.5 against a median of
\* 10, the others are absent: profitability shows two absent values as
\* equal and 3/3, valuation shows three values as worse and 0/3
C16_Witness ==
    /\ rendered # << >>
    /\ stock_data["roe_tangible_equity"] = None
    /\ stock_data["roic_over_wacc"] = Num(2300, 0)
    /\ medians["roic_over_wacc"] = Num(2000, 0)
    /\ ShownClass("roe_tangible_equity") = "equal"
    /\ ShownClass("roic_over_wacc") = "better"
    /\ ShownClass("peg") = "worse"
    /\ rendered.sections["profitability"].above = 3
    /\ rendered.sections["profitability"].total = 3
    /\ rendered.sections["valuation"].above = 0
    /\ rendered.sections["valuation"].total = 3

\* a not-a-number value is counted in total and shown as equal
C16_NaNCounted ==
    /\ rendered # << >>
    /\ stock_data["peg"] = NaN
    /\ Counted("peg")
    /\ ShownClass("peg") = "equal"

====
